---- MODULE Spec2Model ----
(***************************************************************************)
(* Model of the Seaward PAT decoders: portableappliancetest.py (the 'SSS'  *)
(* telemetry record stream) and gar.py (the 'GAR' container with its       *)
(* xorshift keystream and zlib payloads).                                  *)
(*                                                                         *)
(* Byte strings are sequences of naturals 0..255.  Decoded fixed-point     *)
(* values are held in thousandths (the code's 10**-e * m with e in 0..3 is *)
(* the rational m * 10^(3-e) / 1000).                                      *)
(***************************************************************************)
EXTENDS Integers, Sequences, FiniteSets, TLC

VARIABLES
    \* ---- portableappliancetest.py: main / parse_sss
    sssPc,      \* "main" | "header" | "dispatch" | "exit" | "crashed"
    fileNo,     \* number of input files opened so far (sys.argv[1:] position)
    eof,        \* the current input has no byte left
    r,          \* SSSRecordHeader.data of the record being decoded
    Tests,      \* the active tag table (a dict tag -> <<label, class>>)
    version,    \* parse_sss local 'version'
    payload,    \* parse_sss local 'payload' (bytes not yet dispatched)
    test_type,  \* parse_sss local 'test_type' (None is modelled as -1)
    out,        \* the sub-record printed by the last step: tag, label, class, raw, data
    err,        \* the exception that ended the current file ("" if none)
    nRec,       \* records of the current file whose header was unpacked
    nSub,       \* sub-records of the current file printed so far
    recPayload, \* history: the payload of the current record as read
    shortRead,  \* history: the payload read returned fewer bytes than declared
    seenV2,     \* history: a tag 0x11/0x12 was dispatched in the current file
    nDone,      \* history: files whose processing was started and ended
    \* ---- sub-record decoding applied to one buffer
    fVersion, fTag, fBuf, fOut, fPc,
    \* ---- gar.py: the keystream applied to one string
    seedX, seedY,   \* the seeds x and y (32-bit words)
    pnr,            \* the generator: its state words x, y, z, w
    plain,          \* the string given to the add pass
    masked,         \* the result of the add pass
    unmasked,       \* the result of the subtract pass
    cPc,            \* "start" | "masked" | "unmasked"
    \* ---- gar.py: main / gar_extract
    garPc,          \* "main" | "magic" | "record" | "exit" | "crashed"
    garFile,        \* number of containers opened so far
    garEof,         \* the current container has no byte left
    garErr,         \* the exception that ended the run ("" if none)
    garRecs,        \* records of the current container read in full or in part
    garOut,         \* the member written by the last step (name, bytes)
    garChunk,       \* history: the bytes the last pass of the loop had to read
    garPartial,     \* history: the input ended inside a record
    \* ---- gar.py: the generator stepped on its own
    genX, genY,     \* the seeds x and y it was made with
    gen,            \* its state words x, y, z, w (Python integers, as bit sets)
    yielded,        \* the value of its last yield
    nYield          \* the number of values yielded so far

sssVars == <<sssPc, fileNo, eof, r, Tests, version, payload, test_type, out, err,
             nRec, nSub, recPayload, shortRead, seenV2, nDone>>
fVars == <<fVersion, fTag, fBuf, fOut, fPc>>
cVars == <<seedX, seedY, pnr, plain, masked, unmasked, cPc>>
garVars == <<garPc, garFile, garEof, garErr, garRecs, garOut, garChunk, garPartial>>
genVars == <<genX, genY, gen, yielded, nYield>>
vars == <<sssVars, fVars, cVars, garVars, genVars>>

(***************************************************************************)
(* Bounds of the model.                                                    *)
(***************************************************************************)
NumFiles == 2       \* input files on the command line
MaxRecords == 2     \* records read from one input file
MaxSubs == 2        \* fragments concatenated into one record payload
MaxPlain == 3       \* bytes of a string given to the keystream
MaxYield == 8       \* values taken from the generator stepped on its own

(***************************************************************************)
(* Bytes and integers.                                                     *)
(***************************************************************************)
None == -1          \* Python's None for test_type (never a byte value)

RECURSIVE SumBytes(_)
\* sum(map(ord, s)), summed by halves
SumBytes(s) ==
    IF Len(s) = 0 THEN 0
    ELSE IF Len(s) = 1 THEN s[1]
    ELSE SumBytes(SubSeq(s, 1, Len(s) \div 2)) + SumBytes(SubSeq(s, Len(s) \div 2 + 1, Len(s)))

RECURSIVE BE(_)
\* struct big-endian unsigned ('B', 'H', 'L' under '>')
BE(s) == IF s = <<>> THEN 0 ELSE BE(SubSeq(s, 1, Len(s) - 1)) * 256 + s[Len(s)]

RECURSIVE PackBE(_, _)
\* struct.pack big-endian of n on w bytes (used to build inputs)
PackBE(n, w) == IF w = 0 THEN <<>> ELSE Append(PackBE(n \div 256, w - 1), n % 256)

\* s[:n] made up to n bytes with zero bytes when s is shorter
TakePadded(s, n) == [i \in 1..n |-> IF i <= Len(s) THEN s[i] ELSE 0]

Take(s, n) == SubSeq(s, 1, IF n < Len(s) THEN n ELSE Len(s))   \* s[:n]
Drop(s, n) == SubSeq(s, n + 1, Len(s))                         \* s[n:]

RECURSIVE Concat(_)
Concat(ss) == IF ss = <<>> THEN <<>> ELSE Head(ss) \o Concat(Tail(ss))

Fill(b, n) == [i \in 1..n |-> b]

(***************************************************************************)
(* gar.py: the Marsaglia xorshift generator and the additive keystream.    *)
(*                                                                         *)
(* A Python integer is held as the set of the positions of its 1 bits, so  *)
(* that a word is not cut to any width unless the code masks it.           *)
(***************************************************************************)
Pow2(n) == CASE n = 0 -> 1 [] n = 1 -> 2 [] n = 2 -> 4 [] n = 3 -> 8 [] n = 4 -> 16
             [] n = 5 -> 32 [] n = 6 -> 64 [] n = 7 -> 128

RECURSIVE BitsOfNat(_, _)
\* the bits of a natural below 2^31, from position i up
BitsOfNat(n, i) ==
    IF n = 0 THEN {}
    ELSE (IF n % 2 = 1 THEN {i} ELSE {}) \cup BitsOfNat(n \div 2, i + 1)

\* struct.unpack('>L', s): the bits of a big-endian byte string
BitsOfBytes(s) ==
    UNION {{8 * (Len(s) - j) + i : i \in BitsOfNat(s[j], 0)} : j \in 1..Len(s)}

RECURSIVE LowByteSum(_)
LowByteSum(S) ==
    IF S = {} THEN 0
    ELSE LET i == CHOOSE k \in S : TRUE IN Pow2(i) + LowByteSum(S \ {i})

LowByte(w) == LowByteSum(w \cap 0..7)                       \* w & 0xff
Xor(a, b) == (a \ b) \cup (b \ a)                           \* a ^ b
Shl(a, n) == {i + n : i \in a}                              \* a << n
Shr(a, n) == {i - n : i \in {k \in a : k >= n}}             \* a >> n
NoMask(a) == a                                              \* the mask left out
Mask32(a) == a \cap 0..31                                   \* a & 0xffffffff

DefaultZ == 521288629
DefaultW == 88675123

\* marsaglia_xorshift_128(x, y): the generator before its first step
marsaglia_xorshift_128(x, y) ==
    [x |-> x, y |-> y, z |-> BitsOfNat(DefaultZ, 0), w |-> BitsOfNat(DefaultW, 0)]

\* one pass of the generator's loop; the value yielded is the new w
xorshift_next(g) ==
    LET t == Mask32(Xor(g.x, Shl(g.x, 11)))
    IN  [x |-> g.y, y |-> g.z, z |-> g.w,
         w |-> Xor(Xor(g.w, Shr(g.w, 19)), Xor(t, Shr(t, 8)))]

\* the operation ignored: always int.__add__
ApplyOpAddOnly(operation, c, k) == (c + LowByte(k)) % 256

\* operation(ord(c), k) & 0xff, with operation int.__add__ or int.__sub__; the
\* low 8 bits of the result depend on the low 8 bits of k alone
ApplyOp(operation, c, k) ==
    IF operation = "add" THEN (c + LowByte(k)) % 256 ELSE (c - LowByte(k)) % 256

RECURSIVE deobfuscate_string(_, _, _)
\* [chr(operation(ord(c), pnr.next()) & 0xff) for c in obfuscated]: the string
\* produced and the generator it leaves
deobfuscate_string(g, obfuscated, operation) ==
    IF obfuscated = <<>> THEN [out |-> <<>>, pnr |-> g]
    ELSE LET g1 == xorshift_next(g)
             rest == deobfuscate_string(g1, Tail(obfuscated), operation)
         IN  [out |-> <<ApplyOp(operation, Head(obfuscated), g1.w)>> \o rest.out,
              pnr |-> rest.pnr]

(***************************************************************************)
(* zlib, as gar.py uses it: zlib.decompress(zlib_stream).  The streams     *)
(* modelled are those made of stored (uncompressed) deflate blocks: the    *)
(* 2-byte zlib header, the blocks (a header byte, LEN and its complement   *)
(* NLEN little-endian, LEN bytes), the big-endian Adler-32 of the data.    *)
(* Bytes after the Adler-32 are ignored, as zlib.decompress ignores them.  *)
(***************************************************************************)
RECURSIVE AdlerSums(_, _, _)
AdlerSums(s, a, b) ==
    IF s = <<>> THEN <<a, b>>
    ELSE AdlerSums(Tail(s), (a + Head(s)) % 65521,
                   (b + ((a + Head(s)) % 65521)) % 65521)

Adler32(s) == LET ab == AdlerSums(s, 1, 0) IN PackBE(ab[2], 2) \o PackBE(ab[1], 2)

LE16(n) == <<n % 256, n \div 256>>

\* zlib.compress(data, 0): one final stored block
zlib_stored(data) ==
    <<120, 1, 1>> \o LE16(Len(data)) \o LE16(65535 - Len(data)) \o data \o Adler32(data)

ZlibHeaderOK(s) ==
    /\ Len(s) >= 2
    /\ s[1] % 16 = 8 /\ s[1] \div 16 <= 7        \* deflate, window <= 32K
    /\ (s[1] * 256 + s[2]) % 31 = 0              \* FCHECK
    /\ (s[2] \div 32) % 2 = 0                    \* no preset dictionary

ZlibFail == [ok |-> FALSE, out |-> <<>>, rest |-> <<>>]

RECURSIVE InflateStored(_, _)
InflateStored(s, acc) ==
    IF Len(s) < 5 \/ (s[1] \div 2) % 4 # 0 THEN ZlibFail
    ELSE LET len == s[2] + 256 * s[3]
             nlen == s[4] + 256 * s[5]
         IN  IF len + nlen # 65535 \/ Len(s) < 5 + len THEN ZlibFail
             ELSE IF s[1] % 2 = 1
             THEN [ok |-> TRUE, out |-> acc \o SubSeq(s, 6, 5 + len), rest |-> Drop(s, 5 + len)]
             ELSE InflateStored(Drop(s, 5 + len), acc \o SubSeq(s, 6, 5 + len))

\* zlib.decompress(s): the data, or zlib.error
zlib_decompress(s) ==
    IF ~ZlibHeaderOK(s) THEN ZlibFail
    ELSE LET res == InflateStored(Drop(s, 2), <<>>)
         IN  IF res.ok /\ Len(res.rest) >= 4 /\ Take(res.rest, 4) = Adler32(res.out)
             THEN res ELSE ZlibFail

(***************************************************************************)
(* sdb: the structured-record helper.                                      *)
(***************************************************************************)
RECURSIVE calcsize(_)
\* build_format_string: required_length = struct.calcsize(format_string)
calcsize(fields) ==
    IF fields = <<>> THEN 0 ELSE Head(fields)[3] + calcsize(Tail(fields))

Whitespace == {9, 10, 11, 12, 13, 32}

RECURSIVE rstrip(_)
rstrip(s) ==
    IF s # <<>> /\ s[Len(s)] \in Whitespace THEN rstrip(SubSeq(s, 1, Len(s) - 1)) ELSE s

\* u[0].replace('\x00', '').rstrip()
TextValue(s) == rstrip(SelectSeq(s, LAMBDA b : b # 0))

FieldIndex(fields, name) == CHOOSE i \in 1..Len(fields) : fields[i][1] = name
FieldOffset(fields, i) == calcsize(SubSeq(fields, 1, i - 1))
FieldNames(fields) == {fields[i][1] : i \in 1..Len(fields)}

\* sdb.unpack: struct.unpack needs exactly required_length bytes
StructOK(fields, s) == Len(s) = calcsize(fields)

sdb_unpack(fields, s) ==
    [name \in FieldNames(fields) |->
        LET i == FieldIndex(fields, name)
            raw == SubSeq(s, FieldOffset(fields, i) + 1,
                             FieldOffset(fields, i) + fields[i][3])
        IN  IF fields[i][2] = "str" THEN TextValue(raw) ELSE BE(raw)]

(***************************************************************************)
(* SSS: the record classes and their fixups.                               *)
(***************************************************************************)
Pow10(n) == CASE n = 0 -> 1 [] n = 1 -> 10 [] n = 2 -> 100 [] n = 3 -> 1000

\* the legacy reading 0.01 * (v & 0x7fff) of the same field, in thousandths
rescale_centi(v) == 10 * (v % 32768)

\* SSS.rescale: (10**-(v >> 14)) * (v & 0x3fff), in thousandths
rescale(v) == Pow10(3 - (v \div 16384)) * (v % 16384)

\* SSS.passed: bool(v == 1)
passed(v) == (v = 1)

NoResult == -1      \* the string '(no result)' (no rescaled value is negative)

SSSRecordHeader == << <<"payload_length", "int", 2>>,
                      <<"nulls", "int", 2>>,
                      <<"checksum_header", "int", 2>> >>

\* SSSRecordHeader.checksum: the 16-bit sum of the payload bytes
checksum_payload(p) == SumBytes(p) % 65536

\* the header's checksum field compared to itself
checksum_self(hdr, p) == (hdr["checksum_header"] = hdr["checksum_header"])

checksum(hdr, p) == (hdr["checksum_header"] = checksum_payload(p))

ClassFields(cls) ==
    CASE cls = "SSSVisualTest" ->
            << <<"id", "str", 16>>, <<"hour", "int", 1>>, <<"minute", "int", 1>>,
               <<"day", "int", 1>>, <<"month", "int", 1>>, <<"year", "int", 2>>,
               <<"site", "str", 16>>, <<"location", "str", 16>>,
               <<"tester", "str", 11>>, <<"testcode1", "str", 10>>,
               <<"testcode2", "str", 11>> >>
      [] cls = "SSSNoDataTest" -> <<>>
      [] cls = "SSSEarthResistanceTest" -> << <<"resistance", "int", 2>> >>
      [] cls = "SSSEarthResistanceTestv2" ->
            << <<"current", "int", 1>>, <<"pass", "int", 1>>, <<"resistance", "int", 2>> >>
      [] cls = "SSSEarthInsulationTest" -> << <<"resistance", "int", 2>> >>
      [] cls = "SSSCurrentTest" -> << <<"current", "int", 2>> >>
      [] cls = "SSSCurrentTestv2" -> << <<"pass", "int", 1>>, <<"current", "int", 2>> >>
      [] cls = "SSSEarthInsulationTestv2" ->
            << <<"pass", "int", 1>>, <<"resistance", "int", 2>> >>
      [] cls = "SSSPowerLeakTest" -> << <<"leakage", "int", 2>>, <<"load", "int", 2>> >>
      [] cls = "SSSPowerLeakTestv2" ->
            << <<"pass", "int", 1>>, <<"leakage", "int", 2>>, <<"load", "int", 2>> >>
      [] cls = "SSSContinuityTest" -> << <<"resistance", "int", 2>> >>
      [] cls = "SSSContinuityTestv2" ->
            << <<"pass", "int", 1>>, <<"resistance", "int", 2>> >>
      [] cls = "SSSUserDataMappingTest" ->
            << <<"mapping1", "int", 1>>, <<"mapping2", "int", 1>>,
               <<"mapping3", "int", 1>>, <<"mapping4", "int", 1>> >>
      [] cls = "SSSRetestTest" ->
            << <<"nulls", "int", 1>>, <<"unknown", "int", 1>>, <<"frequency", "int", 1>> >>
      [] cls = "SSSSoftwareVersionTest" ->
            << <<"serialnumber", "str", 11>>, <<"firmware1", "int", 1>>,
               <<"firmware2", "int", 1>>, <<"firmware3", "int", 1>> >>
      [] cls = "SSSUserDataTest" ->
            << <<"line1", "str", 21>>, <<"line2", "str", 21>>,
               <<"line3", "str", 21>>, <<"line4", "str", 21>> >>

mappings == 0 :> "Notes" @@ 1 :> "Asset Description" @@ 2 :> "Asset Group" @@
            3 :> "Make" @@ 4 :> "Model" @@ 5 :> "Serial No."

\* SSSEarthResistanceTest.fixup, SSSEarthInsulationTest.fixup, SSSContinuityTest (first line)
RescaleResistance(d) == [d EXCEPT !["resistance"] = rescale(@)]

SSSEarthResistanceTest_fixup(d) == RescaleResistance(d)

SSSEarthResistanceTestv2_fixup(d) ==
    [RescaleResistance(d) EXCEPT !["pass"] = passed(@)]

\* the cap to 99.99 is commented out in the source (line 206): rescale only
SSSEarthInsulationTest_fixup(d) == RescaleResistance(d)

SSSEarthInsulationTestv2_fixup(d) ==
    [RescaleResistance(d) EXCEPT !["pass"] = passed(@)]

SSSCurrentTest_fixup(d) == [d EXCEPT !["current"] = rescale(@)]

SSSCurrentTestv2_fixup(d) ==
    [d EXCEPT !["current"] = rescale(@), !["pass"] = passed(@)]

SSSPowerLeakTest_fixup(d) ==
    [d EXCEPT !["leakage"] = rescale(@), !["load"] = rescale(@)]

\* self.data['pass'] = bool(self.data['pass']): any non-zero byte is True
SSSPowerLeakTestv2_fixup(d) ==
    [d EXCEPT !["pass"] = (@ # 0), !["leakage"] = rescale(@), !["load"] = rescale(@)]

\* if self.data['resistance'] == 0.0: self.data['resistance'] = '(no result)'
ZeroToNoResult(d) ==
    IF d["resistance"] = 0 THEN [d EXCEPT !["resistance"] = NoResult] ELSE d

SSSContinuityTest_fixup(d) == ZeroToNoResult(RescaleResistance(d))

SSSContinuityTestv2_fixup(d) ==
    ZeroToNoResult([RescaleResistance(d) EXCEPT !["pass"] = passed(@)])

\* self.mappings[v] raises KeyError for a code outside the table
SSSUserDataMappingTest_ok(d) == \A k \in DOMAIN d : d[k] \in DOMAIN mappings

SSSUserDataMappingTest_fixup(d) ==
    d @@ [k \in {"meaning1", "meaning2", "meaning3", "meaning4"} |->
            mappings[d[CASE k = "meaning1" -> "mapping1" [] k = "meaning2" -> "mapping2"
                         [] k = "meaning3" -> "mapping3" [] k = "meaning4" -> "mapping4"]]]

fixup(cls, d) ==
    CASE cls = "SSSEarthResistanceTest" -> SSSEarthResistanceTest_fixup(d)
      [] cls = "SSSEarthResistanceTestv2" -> SSSEarthResistanceTestv2_fixup(d)
      [] cls = "SSSEarthInsulationTest" -> SSSEarthInsulationTest_fixup(d)
      [] cls = "SSSEarthInsulationTestv2" -> SSSEarthInsulationTestv2_fixup(d)
      [] cls = "SSSCurrentTest" -> SSSCurrentTest_fixup(d)
      [] cls = "SSSCurrentTestv2" -> SSSCurrentTestv2_fixup(d)
      [] cls = "SSSPowerLeakTest" -> SSSPowerLeakTest_fixup(d)
      [] cls = "SSSPowerLeakTestv2" -> SSSPowerLeakTestv2_fixup(d)
      [] cls = "SSSContinuityTest" -> SSSContinuityTest_fixup(d)
      [] cls = "SSSContinuityTestv2" -> SSSContinuityTestv2_fixup(d)
      [] cls = "SSSUserDataMappingTest" -> SSSUserDataMappingTest_fixup(d)
      [] OTHER -> d          \* SSS.fixup: pass

(***************************************************************************)
(* The tag tables.                                                         *)
(***************************************************************************)
TestsVersion1 ==
    1   :> <<"Visual Pass (01)", "SSSVisualTest">> @@
    2   :> <<"Visual Fail (02)", "SSSVisualTest">> @@
    16  :> <<"Unknown (10)", "SSSNoDataTest">> @@
    224 :> <<"User Data Mapping (E0)", "SSSUserDataMappingTest">> @@
    225 :> <<"Retest (E1)", "SSSRetestTest">> @@
    240 :> <<"Overall Pass (F0)", "SSSNoDataTest">> @@
    241 :> <<"Overall Fail (F1)", "SSSNoDataTest">> @@
    242 :> <<"Earth Resistance (F2)", "SSSEarthResistanceTest">> @@
    243 :> <<"Earth Insulation (F3)", "SSSEarthInsulationTest">> @@
    244 :> <<"Substitute Leakage (F4)", "SSSCurrentTest">> @@
    245 :> <<"Flash Leakage (F5)", "SSSCurrentTest">> @@
    246 :> <<"Load/Leakage (F6)", "SSSPowerLeakTest">> @@
    247 :> <<"Flash Leakage (F5)", "SSSCurrentTest">> @@
    248 :> <<"Continuity (F8)", "SSSContinuityTest">> @@
    251 :> <<"User data (FB)", "SSSUserDataTest">> @@
    254 :> <<"Software Version (FE)", "SSSSoftwareVersionTest">> @@
    255 :> <<"End of Record (FF)", "SSSNoDataTest">>

TestsVersion2 ==
    17  :> <<"Visual Pass v2 (11)", "SSSVisualTest">> @@
    18  :> <<"Visual Fail v2 (12)", "SSSVisualTest">> @@
    242 :> <<"Earth Resistance v2 (F2)", "SSSEarthResistanceTestv2">> @@
    243 :> <<"Earth Insulation v2 (F3)", "SSSEarthInsulationTestv2">> @@
    244 :> <<"Substitute Leakage v2 (F4)", "SSSCurrentTestv2">> @@
    245 :> <<"Flash Leakage v2 (F5)", "SSSCurrentTestv2">> @@
    246 :> <<"Load/Leakage v2 (F6)", "SSSPowerLeakTestv2">> @@
    247 :> <<"Flash Leakage v2 (F7)", "SSSCurrentTestv2">> @@
    248 :> <<"Continuity v2 (F8)", "SSSContinuityTestv2">> @@
    249 :> <<"Lead Continuity Pass (F9)", "SSSNoDataTest">>

\* Tests.update(TestsVersion2): the version-2 entries replace the version-1 ones
TestsUpdate(T) == TestsVersion2 @@ T

\* the tags that switch parse_sss to version 2
UpgradeTags == {17, 18}
EndOfRecord == 255

(***************************************************************************)
(* One sub-record: t = Tests[test_type][1](); t.unpack(payload[:len(t)]).  *)
(* The result is the decoded data or the exception raised.                 *)
(***************************************************************************)
SubDecode(T, tag, buf) ==
    IF tag \notin DOMAIN T THEN [ok |-> FALSE, exc |-> "KeyError"]
    ELSE LET cls == T[tag][2]
             fields == ClassFields(cls)
             raw == Take(buf, calcsize(fields))
         IN  IF ~StructOK(fields, raw) THEN [ok |-> FALSE, exc |-> "struct.error"]
             ELSE LET d == sdb_unpack(fields, raw)
                  IN  IF cls = "SSSUserDataMappingTest" /\ ~SSSUserDataMappingTest_ok(d)
                      THEN [ok |-> FALSE, exc |-> "KeyError"]
                      ELSE [ok |-> TRUE, tag |-> tag, label |-> T[tag][1], class |-> cls,
                            raw |-> raw, data |-> fixup(cls, d)]

(***************************************************************************)
(* Sub-record decoding on its own: a table version, a tag and a buffer are *)
(* drawn, and the class the table names for the tag unpacks the buffer.    *)
(***************************************************************************)
FieldBytes == {0, 1, 2, 64, 128, 192, 255}
TextFills == {0, 32, 65}
UnknownTags == {119}    \* 0x77, in neither table
MaxEnumerated == 5      \* the widest layout whose buffers are enumerated byte by byte

TableOf(v) == IF v = 1 THEN TestsVersion1 ELSE TestsUpdate(TestsVersion1)

BufsOfLen(n) ==
    IF n <= MaxEnumerated
    THEN [1..n -> FieldBytes] \cup (IF n > 0 THEN {Fill(0, n - 1)} ELSE {})
    ELSE {Fill(b, n) : b \in TextFills} \cup {Fill(0, n - 1)}

BufsFor(T, tag) ==
    IF tag \in DOMAIN T THEN BufsOfLen(calcsize(ClassFields(T[tag][2]))) ELSE {<<>>}

NoOutput == [ok |-> FALSE, exc |-> ""]

FInit ==
    /\ fVersion \in {1, 2}
    /\ fTag \in DOMAIN TableOf(fVersion) \cup UnknownTags
    /\ fBuf \in BufsFor(TableOf(fVersion), fTag)
    /\ fOut = NoOutput
    /\ fPc = "ready"

FIdle ==
    /\ fVersion = 1 /\ fTag = 0 /\ fBuf = <<>> /\ fOut = NoOutput /\ fPc = "idle"

\* t = Tests[test_type][1](); t.unpack(payload[:len(t)])
UnpackSubRecord ==
    /\ fPc = "ready"
    /\ fOut' = SubDecode(TableOf(fVersion), fTag, fBuf)
    /\ fPc' = "done"
    /\ UNCHANGED <<fVersion, fTag, fBuf>>
    /\ UNCHANGED <<sssVars, cVars, garVars, genVars>>

SSSIdle ==
    /\ sssPc = "idle" /\ fileNo = 0 /\ eof = FALSE
    /\ r = <<>>
    /\ Tests = <<>> /\ version = 1 /\ payload = <<>> /\ test_type = None
    /\ out = NoOutput /\ err = "" /\ nRec = 0 /\ nSub = 0 /\ recPayload = <<>>
    /\ shortRead = FALSE /\ seenV2 = FALSE /\ nDone = 0

(***************************************************************************)
(* portableappliancetest.py: main and parse_sss.                           *)
(*                                                                         *)
(* The input file is read as the code reads it: each read returns bytes    *)
(* chosen here, or fewer than asked once the input has ended.  A record's  *)
(* payload is a concatenation of at most MaxSubs fragments.                *)
(***************************************************************************)
VisualBody == Fill(65, calcsize(ClassFields("SSSVisualTest")))

Fragments ==
    { <<17>> \o VisualBody,         \* 11 visual pass v2
      <<240>>,                      \* F0 overall pass
      <<249>>,                      \* F9 lead continuity pass (version 2 only)
      <<255>>,                      \* FF end of record
      <<248, 64, 0>>,               \* F8 continuity, version-1 width
      <<248, 1, 0, 5>>,             \* F8 continuity, version-2 width
      <<243, 0>>,                   \* F3 earth insulation, one byte short
      <<119>> }                     \* 77, in neither table

FragmentSeqs == UNION {[1..n -> Fragments] : n \in 0..MaxSubs}
Payloads == {Concat(fs) : fs \in FragmentSeqs}

\* the (payload_length, checksum) header fields offered with payload bytes p:
\* the true length or one more (the input ends inside the payload), and the
\* true sum or one more
HeaderChoices(p) ==
    {<<n, c>> : n \in {Len(p), Len(p) + 1},
                c \in {checksum_payload(p), (checksum_payload(p) + 1) % 65536}}
    \cup (IF p = <<>> THEN {<<0, 0>>, <<0, 1>>} ELSE {})

\* what the two reads at the top of the for loop can return: the 6 header
\* bytes and the payload bytes
RecordReads ==
    UNION {{<<PackBE(h[1], 2) \o PackBE(0, 2) \o PackBE(h[2], 2), p>> : h \in HeaderChoices(p)}
           : p \in Payloads}

SSSInit ==
    /\ sssPc = "main" /\ fileNo = 0 /\ eof = FALSE /\ r = <<>>
    /\ Tests = <<>> /\ version = 1 /\ payload = <<>> /\ test_type = None
    /\ out = NoOutput /\ err = "" /\ nRec = 0 /\ nSub = 0 /\ recPayload = <<>>
    /\ shortRead = FALSE /\ seenV2 = FALSE /\ nDone = 0

\* main: for filename in sys.argv[1:]: open, read, parse_sss(wrapped)
MainNextFile ==
    /\ sssPc = "main" /\ fileNo < NumFiles
    /\ fileNo' = fileNo + 1
    /\ sssPc' = "header"
    /\ eof' = FALSE /\ r' = <<>> /\ out' = NoOutput /\ err' = ""
    /\ nRec' = 0 /\ nSub' = 0 /\ recPayload' = <<>>
    /\ shortRead' = FALSE /\ seenV2' = FALSE
    /\ Tests' = <<>> /\ version' = 1 /\ payload' = <<>> /\ test_type' = None
    /\ UNCHANGED nDone
    /\ UNCHANGED <<fVars, cVars, garVars, genVars>>

\* main: the for loop over sys.argv[1:] is exhausted
MainExit ==
    /\ sssPc = "main" /\ fileNo = NumFiles
    /\ sssPc' = "exit"
    /\ out' = NoOutput
    /\ UNCHANGED <<fileNo, eof, r, Tests, version, payload, test_type, err,
                   nRec, nSub, recPayload, shortRead, seenV2, nDone>>
    /\ UNCHANGED <<fVars, cVars, garVars, genVars>>

\* parse_sss: f.read(len(r)) returns '' and iter(..., '') stops; parse_sss
\* returns and main goes on to the next file name
ParseEnd ==
    /\ sssPc = "header"
    /\ sssPc' = "main"
    /\ eof' = TRUE
    /\ nDone' = nDone + 1
    /\ out' = NoOutput
    /\ UNCHANGED <<fileNo, r, Tests, version, payload, test_type, err,
                   nRec, nSub, recPayload, shortRead, seenV2>>
    /\ UNCHANGED <<fVars, cVars, garVars, genVars>>

\* parse_sss: f.read(len(r)) returns 1..5 bytes; r.unpack raises struct.error,
\* which main does not catch
TruncatedHeader ==
    /\ sssPc = "header" /\ ~eof /\ nRec < MaxRecords
    /\ \E n \in 1..(calcsize(SSSRecordHeader) - 1) : ~StructOK(SSSRecordHeader, Fill(0, n))
    /\ sssPc' = "crashed"
    /\ err' = "struct.error"
    /\ eof' = TRUE
    /\ Tests' = TestsVersion1 /\ version' = 1
    /\ out' = NoOutput
    /\ UNCHANGED <<fileNo, r, payload, test_type, nRec, nSub, recPayload,
                   shortRead, seenV2, nDone>>
    /\ UNCHANGED <<fVars, cVars, garVars, genVars>>

\* parse_sss, top of the for loop: a full header is read and unpacked, the
\* payload is read and summed, and the two checks raise SSSSyntaxError, which
\* main catches ('End File', continue)
ReadRecord ==
    /\ sssPc = "header" /\ ~eof /\ nRec < MaxRecords
    /\ \E rd \in RecordReads :
         LET header == rd[1]
             p == rd[2]
             hdr == sdb_unpack(SSSRecordHeader, header)
             validated == checksum(hdr, p)
         IN  /\ StructOK(SSSRecordHeader, header)
             /\ Len(p) <= hdr["payload_length"]
             /\ r' = hdr @@ [checksum_payload |-> checksum_payload(p),
                             checksum_match |-> validated]
             /\ recPayload' = p
             /\ shortRead' = (Len(p) < hdr["payload_length"])
             /\ eof' = (Len(p) < hdr["payload_length"])
             /\ IF hdr["payload_length"] = 0
                THEN /\ err' = "SSSSyntaxError: Zero length payload"
                     /\ sssPc' = "main" /\ nDone' = nDone + 1
                     /\ UNCHANGED <<payload, test_type>>
                ELSE IF ~validated
                THEN /\ err' = "SSSSyntaxError: Checksum validation failed"
                     /\ sssPc' = "main" /\ nDone' = nDone + 1
                     /\ UNCHANGED <<payload, test_type>>
                ELSE /\ payload' = p /\ test_type' = None
                     /\ sssPc' = "dispatch"
                     /\ UNCHANGED <<err, nDone>>
    /\ Tests' = TestsVersion1 /\ version' = 1
    /\ nRec' = nRec + 1
    /\ nSub' = 0
    /\ out' = NoOutput
    /\ UNCHANGED <<fileNo, seenV2>>
    /\ UNCHANGED <<fVars, cVars, garVars, genVars>>

\* the loop ignoring the end tag: it runs while payload bytes are left
while_payload_only(p, tt) == Len(p) > 0

\* while len(payload) and test_type != 0xff
while_condition(p, tt) == Len(p) > 0 /\ tt # EndOfRecord

\* parse_sss, one pass of the while loop: take the tag, widen the table on
\* 0x11/0x12, unpack the sub-record, print it, skip its bytes.  KeyError and
\* struct.error are not SSSSyntaxError: main does not catch them
DispatchSubRecord ==
    /\ sssPc = "dispatch" /\ while_condition(payload, test_type)
    /\ LET tag == Head(payload)
           rest == Tail(payload)
           upgrade == (version = 1 /\ tag \in UpgradeTags)
           T == IF upgrade THEN TestsUpdate(Tests) ELSE Tests
       IN  \E t \in {SubDecode(T, tag, rest)} :
           /\ test_type' = tag
           /\ version' = IF upgrade THEN version + 1 ELSE version
           /\ Tests' = T
           /\ IF t.ok
              THEN /\ out' = t
                   /\ payload' = Drop(rest, calcsize(ClassFields(t.class)))
                   /\ nSub' = nSub + 1
                   /\ seenV2' = (seenV2 \/ tag \in UpgradeTags)
                   /\ UNCHANGED <<sssPc, err>>
              ELSE /\ sssPc' = "crashed"
                   /\ err' = t.exc
                   /\ payload' = rest
                   /\ out' = NoOutput
                   /\ UNCHANGED <<nSub, seenV2>>
    /\ UNCHANGED <<fileNo, eof, r, nRec, recPayload, shortRead, nDone>>
    /\ UNCHANGED <<fVars, cVars, garVars, genVars>>

\* parse_sss: the while condition fails (payload used up, or the last tag was
\* 0xff); the blank line is printed and the for loop reads the next header
EndRecord ==
    /\ sssPc = "dispatch" /\ ~while_condition(payload, test_type)
    /\ sssPc' = "header"
    /\ out' = NoOutput
    \* payload, test_type and r.data are assigned again before they are next
    \* read: they are cleared here, with the history of the record
    /\ payload' = <<>> /\ test_type' = None /\ r' = <<>> /\ recPayload' = <<>>
    /\ UNCHANGED <<fileNo, eof, Tests, version, err, nRec, nSub, shortRead, seenV2, nDone>>
    /\ UNCHANGED <<fVars, cVars, garVars, genVars>>

(***************************************************************************)
(* The keystream on its own: a string is masked with int.__add__ and the   *)
(* result unmasked with int.__sub__, each pass with a generator newly made *)
(* from the same seeds.                                                    *)
(***************************************************************************)
SeedWords ==
    { {}, {0}, {31}, 0..31, BitsOfNat(123456789, 0), BitsOfBytes(<<202, 188, 171, 1>>) }
PlainBytes == {0, 1, 127, 128, 255}
Plains == UNION {[1..n -> PlainBytes] : n \in 0..MaxPlain}

CInit ==
    /\ seedX \in SeedWords /\ seedY \in SeedWords
    /\ plain \in Plains
    /\ pnr = marsaglia_xorshift_128(seedX, seedY)
    /\ masked = <<>> /\ unmasked = <<>> /\ cPc = "start"

CIdle ==
    /\ seedX = {} /\ seedY = {} /\ plain = <<>> /\ pnr = <<>>
    /\ masked = <<>> /\ unmasked = <<>> /\ cPc = "idle"

\* deobfuscate_string(marsaglia_xorshift_128(x, y), plain, int.__add__)
MaskString ==
    /\ cPc = "start"
    /\ LET res == deobfuscate_string(marsaglia_xorshift_128(seedX, seedY), plain, "add")
       IN  masked' = res.out /\ pnr' = res.pnr
    /\ cPc' = "masked"
    /\ UNCHANGED <<seedX, seedY, plain, unmasked>>
    /\ UNCHANGED <<sssVars, fVars, garVars, genVars>>

\* deobfuscate_string(marsaglia_xorshift_128(x, y), masked)
UnmaskString ==
    /\ cPc = "masked"
    /\ LET res == deobfuscate_string(marsaglia_xorshift_128(seedX, seedY), masked, "sub")
       IN  unmasked' = res.out /\ pnr' = res.pnr
    /\ cPc' = "unmasked"
    /\ UNCHANGED <<seedX, seedY, plain, masked>>
    /\ UNCHANGED <<sssVars, fVars, garVars, genVars>>

(***************************************************************************)
(* The generator on its own: made from two seed words, as gar_extract      *)
(* makes it from two '>L' fields, and asked for its next value MaxYield    *)
(* times.                                                                  *)
(***************************************************************************)
GenInit ==
    /\ genX \in SeedWords /\ genY \in SeedWords
    /\ gen = marsaglia_xorshift_128(genX, genY)
    /\ yielded = {} /\ nYield = 0

GenIdle ==
    /\ genX = {} /\ genY = {} /\ gen = <<>> /\ yielded = {} /\ nYield = 0

\* pnr.next(): one pass of the while True loop, up to the yield
GenNextValue ==
    /\ nYield < MaxYield
    /\ gen' = xorshift_next(gen)
    /\ yielded' = xorshift_next(gen).w
    /\ nYield' = nYield + 1
    /\ UNCHANGED <<genX, genY>>
    /\ UNCHANGED <<sssVars, fVars, cVars, garVars>>

(***************************************************************************)
(* gar.py: main and gar_extract.                                           *)
(*                                                                         *)
(* Each pass of the while loop reads a chunk: the bytes of the container   *)
(* from the record's first byte up to the end of the record, or up to the  *)
(* end of the input when the input ends before.  The reads of the pass     *)
(* take their bytes from the chunk in the order of the code.               *)
(***************************************************************************)
\* clean_filename: '/', ' ' and '\\' become '_'
clean_filename(name) == [i \in 1..Len(name) |-> IF name[i] \in {47, 32, 92} THEN 95 ELSE name[i]]

\* assert header_length == 12 and mangling_method == 1, method not looked at
SubHeaderLengthOnly(header_length, mangling_method) == header_length = 12

\* assert header_length == 12 and mangling_method == 1
SubHeaderOK(header_length, mangling_method) == header_length = 12 /\ mangling_method = 1

\* assert original_length == expected_length (32-bit words)
LengthsAgree(original_length, expected_length) == original_length = expected_length

\* assert original_length == expected_length == len(original)
FinalLengthsAgree(original_length, expected_length, n) ==
    original_length = expected_length /\ expected_length = BitsOfNat(n, 0)

NoMember == [written |-> FALSE]
Raised(exc, short) == [kind |-> "raise", exc |-> exc, short |-> short, member |-> NoMember]

\* one pass of the while loop over the bytes 'chunk': it breaks, raises, or
\* writes a member; 'short' tells that a read returned fewer bytes than asked
ExtractRecord(chunk) ==
    LET s == Take(chunk, 4)
    IN  IF Len(s) < 4
        THEN [kind |-> "break", exc |-> "", short |-> Len(s) > 0, member |-> NoMember]
        ELSE
    LET filename_length == BE(s)
        filename == Take(Drop(chunk, 4), filename_length)
        s2 == Take(Drop(chunk, 4 + filename_length), 4)
    IN  IF Len(s2) < 4 THEN Raised("struct.error", TRUE)
        ELSE
    LET compressed_length == BE(s2)
        contents == Take(Drop(chunk, 8 + filename_length), compressed_length)
        short == Len(contents) < compressed_length
    IN  IF Len(contents) < 12 THEN Raised("struct.error", short)
        ELSE
    LET header_length == BE(SubSeq(contents, 1, 2))
        mangling_method == BE(SubSeq(contents, 3, 4))
        truncated_timestamp == BitsOfBytes(SubSeq(contents, 5, 8))
        original_length == BitsOfBytes(SubSeq(contents, 9, 12))
    IN  IF ~SubHeaderOK(header_length, mangling_method) THEN Raised("AssertionError", short)
        ELSE
    LET pnr0 == marsaglia_xorshift_128(truncated_timestamp, original_length)
        q == deobfuscate_string(pnr0, SubSeq(contents, 13, IF Len(contents) < 16 THEN Len(contents) ELSE 16), "sub")
        z == deobfuscate_string(q.pnr, Drop(contents, 16), "sub")
    IN  IF Len(q.out) < 4 THEN Raised("struct.error", short)
        ELSE
    LET expected_length == BitsOfBytes(q.out)
    IN  IF ~LengthsAgree(original_length, expected_length) THEN Raised("AssertionError", short)
        ELSE
    LET original == zlib_decompress(z.out)
    IN  IF ~original.ok THEN Raised("zlib.error", short)
        ELSE IF ~FinalLengthsAgree(original_length, expected_length, Len(original.out))
        THEN Raised("AssertionError", short)
        \* 100.0 * float(compressed_length) / (original_length)
        ELSE IF original_length = {} THEN Raised("ZeroDivisionError", short)
        ELSE [kind |-> "written", exc |-> "", short |-> short,
              member |-> [written |-> TRUE, name |-> clean_filename(filename),
                          bytes |-> original.out]]

\* ---- the inputs
Magic == <<202, 188, 171>>      \* 0xcabcab
ContainerVersion == 1
MagicReads == { Magic \o <<ContainerVersion>>, Magic \o <<2>>, <<202, 189, 171, 1>>, Magic }

Timestamp == <<84, 129, 10, 247>>
MemberName == <<97, 32, 98>>    \* 'a b'
MemberData == <<104, 105>>      \* 'hi'

\* a record: the name, the sub-header fields, the duplicate length and the
\* stream, the last two masked with the keystream of (timestamp, original
\* length), and 'slack' bytes after the stream inside the declared payload
RecordBytes(hl, mm, olen, dup, stream, slack) ==
    LET olenBytes == PackBE(olen, 4)
        g == marsaglia_xorshift_128(BitsOfBytes(Timestamp), BitsOfBytes(olenBytes))
        body == deobfuscate_string(g, PackBE(dup, 4) \o stream \o slack, "add").out
        contents == PackBE(hl, 2) \o PackBE(mm, 2) \o Timestamp \o olenBytes \o body
    IN  PackBE(Len(MemberName), 4) \o MemberName \o PackBE(Len(contents), 4) \o contents

BadAdler(stream) == [stream EXCEPT ![Len(stream)] = (@ + 1) % 256]

FullRecords ==
    LET n == Len(MemberData)
        good == zlib_stored(MemberData)
    IN  { RecordBytes(12, 1, n, n, good, <<>>),             \* well formed
          RecordBytes(12, 1, n, n, good, <<0, 0>>),         \* two bytes after the stream
          RecordBytes(13, 1, n, n, good, <<>>),             \* header length 13
          RecordBytes(12, 2, n, n, good, <<>>),             \* method 2
          RecordBytes(12, 1, n, n + 1, good, <<>>),         \* duplicate length differs
          RecordBytes(12, 1, n, n, BadAdler(good), <<>>),   \* stream fails its check
          RecordBytes(12, 1, n + 1, n + 1, good, <<>>),     \* lengths agree, data shorter
          RecordBytes(12, 1, 0, 0, zlib_stored(<<>>), <<>>) }   \* empty member

\* every record and every way the input can end inside it (or before it)
Chunks == UNION {{Take(b, k) : k \in 0..Len(b)} : b \in FullRecords}

GarInit ==
    /\ garPc = "main" /\ garFile = 0 /\ garEof = FALSE /\ garErr = ""
    /\ garRecs = 0 /\ garOut = NoMember /\ garChunk = <<>> /\ garPartial = FALSE

GarIdle ==
    /\ garPc = "idle" /\ garFile = 0 /\ garEof = FALSE /\ garErr = ""
    /\ garRecs = 0 /\ garOut = NoMember /\ garChunk = <<>> /\ garPartial = FALSE

\* main: for gar in sys.argv[1:]: gar_extract(gar), up to the open()
GarNextFile ==
    /\ garPc = "main" /\ garFile < NumFiles
    /\ garFile' = garFile + 1
    /\ garPc' = "magic"
    /\ garEof' = FALSE /\ garRecs' = 0 /\ garOut' = NoMember
    /\ garChunk' = <<>> /\ garPartial' = FALSE
    /\ UNCHANGED garErr
    /\ UNCHANGED <<sssVars, fVars, cVars, genVars>>

\* main: the for loop is exhausted
GarExit ==
    /\ garPc = "main" /\ garFile = NumFiles
    /\ garPc' = "exit"
    /\ garOut' = NoMember
    /\ UNCHANGED <<garFile, garEof, garErr, garRecs, garChunk, garPartial>>
    /\ UNCHANGED <<sssVars, fVars, cVars, genVars>>

\* gar_extract: the 4-byte container header is read, unpacked and asserted
ReadMagic ==
    /\ garPc = "magic"
    /\ \E m \in MagicReads :
         IF Len(m) < 4
         THEN garPc' = "crashed" /\ garErr' = "struct.error" /\ garEof' = TRUE
         ELSE LET container_header == m
                  container_magic == SubSeq(container_header, 1, 3)    \* >> 8
                  container_version == container_header[4]             \* & 0xff
              IN  IF container_magic = Magic /\ container_version = ContainerVersion
                  THEN garPc' = "record" /\ UNCHANGED <<garErr, garEof>>
                  ELSE garPc' = "crashed" /\ garErr' = "AssertionError" /\ UNCHANGED garEof
    /\ UNCHANGED <<garFile, garRecs, garOut, garChunk, garPartial>>
    /\ UNCHANGED <<sssVars, fVars, cVars, genVars>>

\* gar_extract: one pass of the while loop
ExtractStep ==
    /\ garPc = "record"
    /\ \E chunk \in Chunks :
         /\ garEof => chunk = <<>>
         /\ garRecs = MaxRecords => chunk = <<>>
         /\ LET res == ExtractRecord(chunk)
            IN  /\ garChunk' = chunk
                /\ garOut' = res.member
                /\ garPartial' = res.short
                /\ garEof' = (garEof \/ res.short \/ chunk = <<>>)
                /\ garRecs' = IF chunk = <<>> THEN garRecs ELSE garRecs + 1
                /\ garErr' = res.exc
                /\ garPc' = CASE res.kind = "break" -> "main"
                              [] res.kind = "raise" -> "crashed"
                              [] res.kind = "written" -> "record"
    /\ UNCHANGED garFile
    /\ UNCHANGED <<sssVars, fVars, cVars, genVars>>

(***************************************************************************)
(* The specifications: the telemetry decoder run over its input files      *)
(* (Spec), one sub-record decoded (SpecFields), one string masked and      *)
(* unmasked (SpecCipher), the container decoder run over its input files   *)
(* (SpecGar), the generator stepped on its own (SpecXorshift).             *)
(***************************************************************************)
Init == SSSInit /\ FIdle /\ CIdle /\ GarIdle /\ GenIdle
Next ==
    \/ MainNextFile
    \/ MainExit
    \/ ParseEnd
    \/ TruncatedHeader
    \/ ReadRecord
    \/ DispatchSubRecord
    \/ EndRecord
Spec == Init /\ [][Next]_vars

\* the interpreter runs the next statement of the while loop without waiting
SpecLive == Spec /\ WF_vars(DispatchSubRecord) /\ WF_vars(EndRecord)

InitFields == FInit /\ SSSIdle /\ CIdle /\ GarIdle /\ GenIdle
NextFields == UnpackSubRecord
SpecFields == InitFields /\ [][NextFields]_vars

InitCipher == CInit /\ SSSIdle /\ FIdle /\ GarIdle /\ GenIdle
NextCipher == MaskString \/ UnmaskString
SpecCipher == InitCipher /\ [][NextCipher]_vars

InitGar == GarInit /\ SSSIdle /\ FIdle /\ CIdle /\ GenIdle
NextGar == GarNextFile \/ GarExit \/ ReadMagic \/ ExtractStep
SpecGar == InitGar /\ [][NextGar]_vars

InitXorshift == GenInit /\ SSSIdle /\ FIdle /\ CIdle /\ GarIdle
NextXorshift == GenNextValue
SpecXorshift == InitXorshift /\ [][NextXorshift]_vars

(***************************************************************************)
(* Properties of the field decoders (SpecFields).                          *)
(***************************************************************************)
Decoded == fPc = "done" /\ fOut.ok

\* the bytes of field 'name' in the buffer the class unpacked
RawField(name) ==
    LET fields == ClassFields(fOut.class)
        i == FieldIndex(fields, name)
    IN  SubSeq(fOut.raw, FieldOffset(fields, i) + 1, FieldOffset(fields, i) + fields[i][3])

HasField(name) == name \in FieldNames(ClassFields(fOut.class))

\* C8: every version-2 decoder with a pass field reports pass = TRUE exactly
\* when the raw pass byte is 1 (FALSE for 0 and 2..255).
C8_PassIffOne ==
    (Decoded /\ fVersion = 2 /\ HasField("pass"))
        => (fOut.data["pass"] = (BE(RawField("pass")) = 1))

ContinuityClasses == {"SSSContinuityTest", "SSSContinuityTestv2"}
MeasuredKeys == {"resistance", "current", "leakage", "load"}

\* C9: a continuity resistance decodes to '(no result)' exactly when the 14
\* mantissa bits of the raw value are zero, and to 10^-(v >> 14) * (v & 0x3fff)
\* otherwise; no other record kind yields '(no result)'.
C9_ContinuitySentinel ==
    Decoded =>
        IF fOut.class \in ContinuityClasses
        THEN LET v == BE(RawField("resistance"))
                 x == fOut.data["resistance"]
             IN  /\ (v % 16384 = 0) <=> (x = NoResult)
                 /\ (v % 16384 # 0) => (x * Pow10(v \div 16384) = 1000 * (v % 16384))
        ELSE \A k \in MeasuredKeys \cap DOMAIN fOut.data : fOut.data[k] # NoResult

C9_Witness ==
    /\ Decoded /\ fOut.class = "SSSContinuityTestv2"
    /\ RawField("resistance") = <<64, 0>>
    /\ fOut.data["resistance"] = NoResult

DisplayCap == 99990     \* 99.99 MOhm, in thousandths
InsulationClasses == {"SSSEarthInsulationTest", "SSSEarthInsulationTestv2"}

\* C10: the earth-insulation decoders report the rescaled raw value clamped to
\* 99.99, so no decoded insulation resistance exceeds 99.99.
C10_InsulationCapped ==
    (Decoded /\ fOut.class \in InsulationClasses)
        => /\ fOut.data["resistance"] <= DisplayCap
           /\ fOut.data["resistance"] =
                 (IF rescale(BE(RawField("resistance"))) < DisplayCap
                  THEN rescale(BE(RawField("resistance"))) ELSE DisplayCap)

(***************************************************************************)
(* Properties of parse_sss and main (Spec).                                *)
(***************************************************************************)
ZeroLengthError == "SSSSyntaxError: Zero length payload"
ChecksumError == "SSSSyntaxError: Checksum validation failed"

\* C1: the table version is stream-global: once 0x11 or 0x12 has been
\* dispatched in a record of the stream, every later record of the stream is
\* dispatched with the version-2 table.
C1_VersionStreamGlobal ==
    (seenV2 /\ sssPc = "dispatch")
        => (version = 2 /\ Tests = TestsUpdate(TestsVersion1))

\* the header of the current record has been unpacked
HeaderUnpacked == r # <<>>
SumMatches == (SumBytes(recPayload) % 65536 = r["checksum_header"])

C2_Gate ==
    HeaderUnpacked =>
        /\ (sssPc = "dispatch" \/ nSub > 0) => (r["payload_length"] # 0 /\ SumMatches)
        /\ (r["payload_length"] = 0) => (err = ZeroLengthError /\ sssPc \in {"main", "exit"})
        /\ (r["payload_length"] # 0 /\ ~SumMatches)
              => (err = ChecksumError /\ sssPc \in {"main", "exit"})

C2_NoLaterDecoding ==
    (err \in {ZeroLengthError, ChecksumError} /\ fileNo' = fileNo)
        => (nSub' = nSub /\ nRec' = nRec /\ sssPc' \in {"main", "exit"})

\* C2: the sub-records of a record are dispatched only if the declared payload
\* length is non-zero and the payload bytes sum (mod 65536) to the header's
\* checksum field; a zero length raises the empty-payload error whatever the
\* checksum field, a sum mismatch raises the checksum error, and after either
\* no sub-record of that record or of a later record of the stream is decoded.
C2_ChecksumGate == [](C2_Gate) /\ [][C2_NoLaterDecoding]_vars

C2_Witness ==
    /\ sssPc = "main" /\ err = ChecksumError /\ nRec = 2
    /\ r["payload_length"] = Len(recPayload) /\ Len(recPayload) > 1

\* C3: when the input ends before all payload_length payload bytes are read,
\* no sub-record of the partial record is dispatched and the decoding of the
\* file does not end successfully.
C3_PartialRecordFails ==
    shortRead => (nSub = 0 /\ ~(sssPc \in {"main", "exit"} /\ err = ""))

\* C7: a fatal decode error in one file does not keep the remaining files from
\* being processed (the run never stops with files left).
C7_RemainingFilesProcessed ==
    (sssPc = "crashed") => (fileNo = NumFiles)

\* a pass of the dispatch loop is about to run
InDispatchLoop == sssPc = "dispatch" /\ Len(payload) > 0 /\ test_type # EndOfRecord

\* the pass printed no sub-record and raised exc
AbortedWith(exc) ==
    sssPc' = "crashed" /\ err' = exc /\ nSub' = nSub /\ ~out'.ok

C11_Step ==
    InDispatchLoop =>
        LET tag == Head(payload)
            known == tag \in DOMAIN Tests'
            width == calcsize(ClassFields(Tests'[tag][2]))
            remaining == Len(payload) - 1
        IN  /\ nSub' \in {nSub, nSub + 1}
            /\ (nSub' = nSub + 1) =>
                 /\ known /\ width <= remaining
                 /\ out'.ok /\ out'.tag = tag
                 /\ out'.raw = SubSeq(payload, 2, 1 + width)
                 /\ payload' = SubSeq(payload, 2 + width, Len(payload))
                 /\ sssPc' = "dispatch"
            /\ (nSub' = nSub) => (sssPc' = "crashed" /\ ~out'.ok)
            /\ ~known => AbortedWith("KeyError")
            /\ (known /\ width > remaining) => AbortedWith("struct.error")

\* C11: each sub-record printed by the dispatch loop consumed exactly its tag
\* byte and the width its class declares in the active table; a tag absent
\* from the active table raises KeyError and a tag whose width exceeds the
\* bytes left after it raises struct.error, with no sub-record printed for
\* that tag.
C11_ExactWidthOrError == [][C11_Step]_vars

\* F0 was printed and the next tag of the same record had too few bytes left
C11_Witness ==
    /\ sssPc = "crashed" /\ err = "struct.error"
    /\ nSub > 0
    /\ test_type \in DOMAIN Tests
    /\ Len(payload) < calcsize(ClassFields(Tests[test_type][2]))

C12_Step ==
    sssPc = "dispatch" =>
        /\ (test_type = EndOfRecord \/ payload = <<>>) =>
             (sssPc' = "header" /\ nSub' = nSub /\ ~out'.ok)
        /\ (test_type # EndOfRecord /\ payload # <<>>) =>
             /\ sssPc' \in {"dispatch", "crashed"}
             /\ test_type' = Head(payload)
             /\ Len(payload') < Len(payload)

C12_LeavesLoop == (sssPc = "dispatch") ~> (sssPc # "dispatch")

\* C12: the dispatch loop of a record that passed the length and checksum
\* checks terminates: each pass removes at least the tag byte from the payload
\* left, no pass runs after the pass that took the tag 0xFF, and otherwise the
\* loop is left (without an exception) exactly when no payload byte is left.
C12_DispatchLoopTerminates == [][C12_Step]_vars /\ C12_LeavesLoop

\* the end tag was printed with payload bytes still left after it
C12_Witness ==
    /\ sssPc = "dispatch" /\ test_type = EndOfRecord
    /\ out.ok /\ out.tag = EndOfRecord
    /\ payload # <<>>

(***************************************************************************)
(* Properties of the keystream (SpecCipher).                               *)
(***************************************************************************)
\* C6: masking a string with the add operation and unmasking the result with
\* the subtract operation, each with a generator newly made from the same
\* seeds, gives back the string (same length, same bytes).
C6_RoundTrip == (cPc = "unmasked") => (unmasked = plain)

C6_Witness ==
    /\ cPc = "unmasked" /\ Len(plain) = MaxPlain /\ unmasked = plain
    /\ \A i \in 1..Len(plain) : masked[i] # plain[i]
    /\ seedX = 0..31

(***************************************************************************)
(* Properties of the generator (SpecXorshift).                             *)
(***************************************************************************)
\* a value reduced modulo 2^32
Word(a) == {i \in a : i < 32}

\* the reference generator: the same step with every operation reduced
\* modulo 2^32
reference_next(g) ==
    LET t == Word(Xor(g.x, Word(Shl(g.x, 11))))
    IN  [x |-> g.y, y |-> g.z, z |-> g.w,
         w |-> Word(Xor(Word(Xor(g.w, Shr(g.w, 19))), Word(Xor(t, Shr(t, 8)))))]

RECURSIVE reference_after(_, _)
\* the reference generator after n steps from state g
reference_after(g, n) == IF n = 0 THEN g ELSE reference_next(reference_after(g, n - 1))

ReferenceStart ==
    [x |-> genX, y |-> genY, z |-> BitsOfNat(DefaultZ, 0), w |-> BitsOfNat(DefaultW, 0)]

\* C13: with seeds x and y in 0..2^32-1 and the default z and w, every state
\* word and every value yielded by marsaglia_xorshift_128 is in 0..2^32-1 at
\* every step, and the state and the value yielded are those of the reference
\* generator that reduces every operation modulo 2^32.
C13_WordsStayBelow2Pow32 ==
    (gen # <<>>) =>
        /\ \A k \in {"x", "y", "z", "w"} : gen[k] \subseteq 0..31
        /\ yielded \subseteq 0..31
        /\ gen = reference_after(ReferenceStart, nYield)
        /\ (nYield > 0) => (yielded = reference_after(ReferenceStart, nYield).w)

\* the seed x is 2^32-1, so that x << 11 has bits above bit 31, and the seed
\* words have passed through all four state words
C13_Witness ==
    /\ genX = 0..31 /\ genY = {31}
    /\ nYield = MaxYield
    /\ yielded # {}
    /\ ~(Shl(genX, 11) \subseteq 0..31)

(***************************************************************************)
(* Properties of gar_extract (SpecGar).                                    *)
(***************************************************************************)
\* C4: when the input ends anywhere inside a record (inside the name-length
\* prefix, the name, the payload-length field or the payload), gar_extract
\* fails with an error and emits no member for the partial record.
C4_PartialRecordIsError ==
    garPartial => (garPc = "crashed" /\ ~garOut.written)

\* the payload bytes of the record the last pass read
ChunkContents == Drop(garChunk, 8 + BE(Take(garChunk, 4)))

\* the conditions of C5 on those bytes: sub-header length 12, method 1, the
\* unmasked duplicate length equal to the original length, a stream that
\* decompresses, to as many bytes as the original length says
RecordSound(c) ==
    /\ Len(c) >= 16
    /\ BE(SubSeq(c, 1, 2)) = 12
    /\ BE(SubSeq(c, 3, 4)) = 1
    /\ LET g == marsaglia_xorshift_128(BitsOfBytes(SubSeq(c, 5, 8)), BitsOfBytes(SubSeq(c, 9, 12)))
           u == deobfuscate_string(g, Drop(c, 12), "sub").out
       IN  /\ Take(u, 4) = SubSeq(c, 9, 12)
           /\ zlib_decompress(Drop(u, 4)).ok
           /\ PackBE(Len(zlib_decompress(Drop(u, 4)).out), 4) = SubSeq(c, 9, 12)

C5_Written ==
    garOut.written =>
        /\ RecordSound(ChunkContents)
        /\ Len(garOut.bytes) = BE(SubSeq(ChunkContents, 9, 12))

C5_Failed ==
    (Len(garChunk) >= 4 /\ ~RecordSound(ChunkContents))
        => (garPc = "crashed" /\ garErr # "" /\ ~garOut.written)

\* C5: a member is written only if its record has sub-header length 12, method
\* 1, an unmasked duplicate length equal to the original length, a stream that
\* decompresses, and a decompressed size equal to that length; when one of
\* these fails the run stops with an error, nothing is written for the record
\* and no later record is processed.
C5_MemberOnlyIfSound ==
    [](C5_Written /\ C5_Failed) /\ [][garPc # "crashed"]_vars

C5_Witness ==
    /\ garOut.written /\ garRecs = 2 /\ garOut.bytes = MemberData
    /\ RecordSound(ChunkContents)

====
